---------------------------- MODULE Spec2Model ----------------------------
(***************************************************************************)
(* A model of three edalize backends: Vivado (vivado.py), VUnit (vunit.py) *)
(* and ALINT-PRO (alintpro.py).  One backend object is modelled at a time: *)
(* its manifest (self.files), its options (self.tool_options, an ordered   *)
(* dictionary), the template loader chain (self.jinja_env.loader), the     *)
(* files it has written into the work root, and the effects (warnings,    *)
(* file writes, tool invocations, raised errors) of its latest operation. *)
(* Strings are TLA+ strings; Python's string operations are computed on    *)
(* them character by character.                                            *)
(***************************************************************************)
EXTENDS Naturals, Sequences, FiniteSets, TLC

VARIABLES
    manifest,       \* the manifest as supplied to the backend's constructor
    files,          \* self.files: the manifest, a sequence of file entries
    include_dirs,   \* the manifest's include directories
    tool_options,   \* self.tool_options: sequence of <<key, value>> (dict order)
    name,           \* self.name
    toplevel,       \* self.toplevel
    loader,         \* self.jinja_env.loader: lookup roots in search order
    fs,             \* files written into the work root: file name -> content
    effects,        \* effects of the latest operation, in order
    raised,         \* the error the latest operation raised, "" when none
    last_op,        \* the latest operation: "none", "configure" or "run"
    n_conf,         \* Configure invocations so far
    n_run           \* Run invocations so far

vars == <<manifest, files, include_dirs, tool_options, name, toplevel, loader, fs,
          effects, raised, last_op, n_conf, n_run>>

(***************************************************************************)
(* Bounds of the model.                                                    *)
(***************************************************************************)
MaxFiles == 2
MaxConfigures == 2
MaxRuns == 1

(***************************************************************************)
(* Python strings and dictionaries.                                        *)
(***************************************************************************)
\* s[i] of a string
Char(s, i) == SubSeq(s, i, i)

\* a in b, for strings
IsSubstring(a, b) ==
    \E i \in 0..Len(b) : i + Len(a) <= Len(b) /\ SubSeq(b, i + 1, i + Len(a)) = a

\* s.split('-')[0]
SplitDashHead(s) ==
    LET dashes == {i \in 1..Len(s) : Char(s, i) = "-"}
    IN IF dashes = {} THEN s
       ELSE SubSeq(s, 1, (CHOOSE i \in dashes : \A j \in dashes : i <= j) - 1)

\* s.replace(a, b) for one-character a
RECURSIVE Replace(_, _, _)
Replace(s, a, b) ==
    IF Len(s) = 0 THEN ""
    ELSE (IF Char(s, 1) = a THEN b ELSE Char(s, 1))
         \o Replace(SubSeq(s, 2, Len(s)), a, b)

\* position of the last '/' of a path, 0 when it has none
LastSlash(p) ==
    LET sl == {i \in 1..Len(p) : Char(p, i) = "/"}
    IN IF sl = {} THEN 0 ELSE CHOOSE i \in sl : \A j \in sl : j <= i

\* pathlib: Path(p).name
PathName(p) == SubSeq(p, LastSlash(p) + 1, Len(p))

\* pathlib: Path(p).parent.as_posix(), for a path with a directory part
PathParent(p) == SubSeq(p, 1, LastSlash(p) - 1)

\* pathlib: (Path(a) / Path(b)), b relative
PathJoin(a, b) == a \o "/" \o b

\* key in d
OptHas(d, k) == \E i \in 1..Len(d) : d[i][1] = k

\* d[k], for a key of d
OptAt(d, k) == d[CHOOSE i \in 1..Len(d) : d[i][1] = k][2]

\* d.get(k, default)
OptGet(d, k, default) == IF OptHas(d, k) THEN OptAt(d, k) ELSE default

\* d[k] = v for a key already in d: the key keeps its place
OptSet(d, k, v) == [i \in 1..Len(d) |-> IF d[i][1] = k THEN <<k, v>> ELSE d[i]]

\* the sequence as a mapping, for a template context
OptDict(d) == [k \in {d[i][1] : i \in 1..Len(d)} |-> OptAt(d, k)]

(***************************************************************************)
(* Edatool: the base class's collaborators.                                *)
(***************************************************************************)
WorkRoot == "/b/work"

\* Edatool._get_fileset_files: fresh File objects, one per manifest entry
get_fileset_files(fls, force_slash) ==
    [i \in 1..Len(fls) |->
        [name |-> IF force_slash THEN Replace(fls[i].name, "\\", "/")
                  ELSE fls[i].name,
         file_type |-> fls[i].file_type,
         logical_name |-> fls[i].logical_name]]

get_fileset_incdirs(force_slash) ==
    [i \in 1..Len(include_dirs) |->
        IF force_slash THEN Replace(include_dirs[i], "\\", "/")
        ELSE include_dirs[i]]

Warning(msg) == [kind |-> "warning", what |-> msg, args |-> <<>>]
Write(file) == [kind |-> "write", what |-> file, args |-> <<>>]
RunTool(cmd, args) == [kind |-> "run_tool", what |-> cmd, args |-> args]

\* the absolute paths of the manifest's files
Disk(fls) == {PathJoin(WorkRoot, Replace(fls[i].name, "\\", "/")) : i \in 1..Len(fls)}

\* the file an include of `n` resolves to: the first lookup root that holds it
Resolve(ldr, fls, n) ==
    LET hits == {i \in 1..Len(ldr) : PathJoin(ldr[i], n) \in Disk(fls)}
    IN IF hits = {} THEN "TemplateNotFound"
       ELSE PathJoin(ldr[CHOOSE i \in hits : \A j \in hits : i <= j], n)

\* Edatool.render_template: the script is fixed by the template, its context
\* and the files its includes resolve to
render_template(template, template_vars, ldr, fls, includes) ==
    [template |-> template,
     vars |-> template_vars,
     includes |-> [i \in 1..Len(includes) |-> Resolve(ldr, fls, includes[i])]]

\* writing `content` to work_root/file
FsPut(f, file, content) ==
    [x \in (DOMAIN f) \cup {file} |-> IF x = file THEN content ELSE f[x]]

(***************************************************************************)
(* Vivado                                                                  *)
(***************************************************************************)
\* mutant: the 2008 flag follows the normalized type's variant marker loosely
vhdl_source_any_variant(f) ==
    "read_vhdl"
    \o (IF f.file_type # SplitDashHead(f.file_type) THEN " -vhdl2008" ELSE "")
    \o (IF f.logical_name # "" THEN " -library " \o f.logical_name ELSE "")

vhdl_source(f) ==
    "read_vhdl"
    \o (IF f.file_type = "vhdlSource-2008" THEN " -vhdl2008" ELSE "")
    \o (IF f.logical_name # "" THEN " -library " \o f.logical_name ELSE "")

\* the dispatch table of src_file_filter, as a mapping
file_types(f, synth) ==
    LET base == [xci |-> "read_ip", xdc |-> "read_xdc", tclSource |-> "source"]
    IN IF synth = "vivado"
       THEN [verilogSource |-> "read_verilog",
             systemVerilogSource |-> "read_verilog -sv",
             vhdlSource |-> vhdl_source(f)] @@ base
       ELSE base

ignore_types(synth) ==
    IF synth = "vivado" THEN {"user"}
    ELSE {"user", "verilogSource", "systemVerilogSource"}

normalized_type(f) == SplitDashHead(f.file_type)

\* what src_file_filter returns
src_file_filter(f, synth) ==
    IF normalized_type(f) \in DOMAIN file_types(f, synth)
    THEN file_types(f, synth)[normalized_type(f)] \o " " \o f.name
    ELSE ""

\* mutant: the ignore list is not consulted before warning
src_file_filter_log_no_ignore(f, synth) ==
    IF normalized_type(f) \notin DOMAIN file_types(f, synth)
    THEN <<Warning(f.name \o " has unknown file type '" \o f.file_type \o "'")>>
    ELSE <<>>

\* what src_file_filter logs
src_file_filter_log(f, synth) ==
    IF /\ normalized_type(f) \notin DOMAIN file_types(f, synth)
       /\ normalized_type(f) \notin ignore_types(synth)
    THEN <<Warning(f.name \o " has unknown file type '" \o f.file_type \o "'")>>
    ELSE <<>>

\* mutant: each directive is inserted at the front of the list
RECURSIVE collect_directives_prepend(_, _)
collect_directives_prepend(src_files, synth) ==
    IF src_files = <<>> THEN <<>>
    ELSE collect_directives_prepend(Tail(src_files), synth)
         \o (IF src_file_filter(Head(src_files), synth) # ""
             THEN <<src_file_filter(Head(src_files), synth)>> ELSE <<>>)

\* configure_main's loop: the non-empty directives, in the files' order
RECURSIVE collect_directives(_, _)
collect_directives(src_files, synth) ==
    IF src_files = <<>> THEN <<>>
    ELSE (IF src_file_filter(Head(src_files), synth) # ""
          THEN <<src_file_filter(Head(src_files), synth)>> ELSE <<>>)
         \o collect_directives(Tail(src_files), synth)

RECURSIVE collect_warnings(_, _)
collect_warnings(src_files, synth) ==
    IF src_files = <<>> THEN <<>>
    ELSE src_file_filter_log(Head(src_files), synth)
         \o collect_warnings(Tail(src_files), synth)

\* the directives configure_main appends that come from no file
synthetic_directives(synth) ==
    IF synth = "yosys"
    THEN <<"read_edif " \o toplevel \o ".edif",
           "set_property design_mode GateLvl [current_fileset]">>
    ELSE <<>>

RECURSIVE JoinWords(_, _)
JoinWords(prefix, words) ==
    IF words = <<>> THEN ""
    ELSE prefix \o Head(words) \o JoinWords(prefix, Tail(words))

RECURSIVE yosys_reads(_)
yosys_reads(src_files) ==
    IF src_files = <<>> THEN <<>>
    ELSE (IF Head(src_files).file_type = "verilogSource"
          THEN <<"read_verilog " \o Head(src_files).name>> ELSE <<>>)
         \o yosys_reads(Tail(src_files))

\* _write_yosys_file: the lines of <name>.ys (no vlogdefine, no vlogparam)
yosys_file ==
    <<"verilog_defaults -push", "verilog_defaults -add -defer">>
    \o (IF get_fileset_incdirs(FALSE) # <<>>
        THEN <<"verilog_defaults -add" \o JoinWords(" -I", get_fileset_incdirs(FALSE))>>
        ELSE <<>>)
    \o yosys_reads(get_fileset_files(files, FALSE))
    \o <<"verilog_defaults -pop",
         "synth_xilinx"
         \o JoinWords(" ", OptGet(tool_options, "yosys_synth_options", <<>>))
         \o " -edif " \o toplevel \o ".edif"
         \o (IF toplevel # "" THEN " -top " \o toplevel ELSE ""),
         "write_json " \o name \o ".json">>

vivado_files(synth) ==
    collect_directives(get_fileset_files(files, TRUE), synth) \o synthetic_directives(synth)

vivado_template_vars(synth) ==
    [name |-> name,
     src_files |-> vivado_files(synth),
     incdirs |-> get_fileset_incdirs(TRUE),
     tool_options |-> OptDict(tool_options),
     toplevel |-> toplevel,
     vlogparam |-> <<>>,
     vlogdefine |-> <<>>,
     has_vhdl2008 |-> \E i \in 1..Len(files) : files[i].file_type = "vhdlSource-2008",
     has_xci |-> \E i \in 1..Len(files) : files[i].file_type = "xci"]

\* Vivado.configure_main
VivadoConfigure ==
    /\ n_conf < MaxConfigures
    /\ LET synth == OptGet(tool_options, "synth", "vivado")
           fs1 == IF synth = "yosys"
                  THEN FsPut(fs, name \o ".ys", [lines |-> yosys_file])
                  ELSE fs
           fs2 == FsPut(fs1, name \o ".tcl",
                        render_template("vivado-project.tcl.j2",
                                        vivado_template_vars(synth), loader, files, <<>>))
           fs3 == FsPut(fs2, "Makefile",
                        [template |-> "MAKEFILE_TEMPLATE",
                         vars |-> <<name, IF synth = "yosys" THEN " $(NAME).edif" ELSE "">>])
           fs4 == FsPut(fs3, name \o "_run.tcl",
                        render_template("vivado-run.tcl.j2", <<>>, loader, files, <<>>))
       IN /\ fs' = fs4
          /\ effects' = collect_warnings(get_fileset_files(files, TRUE), synth)
                        \o (IF synth = "yosys" THEN <<Write(name \o ".ys")>> ELSE <<>>)
                        \o <<Write(name \o ".tcl"), Write("Makefile"),
                             Write(name \o "_run.tcl")>>
    /\ raised' = ""
    /\ last_op' = "configure"
    /\ n_conf' = n_conf + 1
    /\ UNCHANGED <<manifest, files, include_dirs, tool_options, name, toplevel, loader, n_run>>

\* mutant: the device is read with a default, so a run without it goes ahead
VivadoRunDefaultDevice ==
    /\ n_run < MaxRuns
    /\ fs' = FsPut(fs, name \o "_pgm.tcl",
                   render_template("vivado/vivado-program.tcl.j2",
                                   [bitstream_name |-> name \o ".bit",
                                    hw_device |-> OptGet(tool_options, "hw_device", "")],
                                   loader, files, <<>>))
    /\ effects' = <<Write(name \o "_pgm.tcl"),
                    RunTool("vivado", <<"-mode", "batch", "-source", name \o "_pgm.tcl">>)>>
    /\ raised' = ""
    /\ last_op' = "run"
    /\ n_run' = n_run + 1
    /\ UNCHANGED <<manifest, files, include_dirs, tool_options, name, toplevel, loader, n_conf>>

\* Vivado.run with _write_program_tcl_file
VivadoRun ==
    /\ n_run < MaxRuns
    /\ IF OptHas(tool_options, "hw_device")
       THEN /\ fs' = FsPut(fs, name \o "_pgm.tcl",
                           render_template("vivado/vivado-program.tcl.j2",
                                           [bitstream_name |-> name \o ".bit",
                                            hw_device |-> OptAt(tool_options, "hw_device")],
                                           loader, files, <<>>))
            /\ effects' = <<Write(name \o "_pgm.tcl"),
                            RunTool("vivado", <<"-mode", "batch", "-source",
                                                name \o "_pgm.tcl">>)>>
            /\ raised' = ""
       ELSE /\ fs' = fs
            /\ effects' = <<>>
            /\ raised' = "KeyError: 'hw_device'"
    /\ last_op' = "run"
    /\ n_run' = n_run + 1
    /\ UNCHANGED <<manifest, files, include_dirs, tool_options, name, toplevel, loader, n_conf>>

File(n, t, l) == [name |-> n, file_type |-> t, logical_name |-> l]

VivadoFileChoices ==
    {File("a.vhd", "vhdlSource-2008", ""),
     File("b.vhd", "vhdlSource-2008", "mylib"),
     File("c.vhd", "vhdlSource", ""),
     File("d.vhd", "vhdlSource-93", "mylib"),
     File("f.v", "verilogSource", ""),
     File("g.sv", "systemVerilogSource", ""),
     File("h.xci", "xci", ""),
     File("cons\\i.xdc", "xdc-extra-1", "mylib"),
     File("k.txt", "user", ""),
     File("x.foo", "unknown_type", ""),
     File("z", "-xci", "")}

FileLists(choices) == UNION {[1..n -> choices] : n \in 0..MaxFiles}

VivadoOptionChoices ==
    {s \o h : s \in {<<>>, <<<<"synth", "vivado">>>>, <<<<"synth", "yosys">>>>,
                     <<<<"synth", "icestorm">>>>},
              h \in {<<>>, <<<<"hw_device", "xc7a35t_0">>>>}}

VivadoInit ==
    /\ files \in FileLists(VivadoFileChoices)
    /\ manifest = files
    /\ include_dirs = <<"rtl\\inc">>
    /\ tool_options \in VivadoOptionChoices
    /\ name = "core"
    /\ toplevel = "top"
    /\ loader = <<"templates">>
    /\ fs = <<>>
    /\ effects = <<>>
    /\ raised = ""
    /\ last_op = "none"
    /\ n_conf = 0
    /\ n_run = 0

VivadoNext == VivadoConfigure \/ VivadoRun

SpecVivado == VivadoInit /\ [][VivadoNext]_vars

(***************************************************************************)
(* Vivado: properties                                                      *)
(***************************************************************************)
EndsWith(s, suffix) ==
    Len(suffix) <= Len(s) /\ SubSeq(s, Len(s) - Len(suffix) + 1, Len(s)) = suffix

\* the k-th smallest member of a set of indices
Kth(S, k) == CHOOSE i \in S : Cardinality({j \in S : j < i}) = k - 1

IsWarning(e) == e.kind = "warning"
IsWrite(e) == e.kind = "write"
IsRunTool(e) == e.kind = "run_tool"

Synth == OptGet(tool_options, "synth", "vivado")
SrcFiles == get_fileset_files(files, TRUE)
VivadoConfigured == (name \o ".tcl") \in DOMAIN fs
RenderedDirectives == fs[name \o ".tcl"].vars.src_files

\* the directives collected from src_file_filter: the rendered list without the
\* two entries the 'yosys' flow appends
PerFileDirectives ==
    SubSeq(RenderedDirectives, 1,
           Len(RenderedDirectives) - (IF Synth = "yosys" THEN 2 ELSE 0))

RecognizedIdx(src, synth) ==
    {i \in 1..Len(src) : normalized_type(src[i]) \in DOMAIN file_types(src[i], synth)}
IgnoredIdx(src, synth) ==
    {i \in 1..Len(src) :
        /\ normalized_type(src[i]) \notin DOMAIN file_types(src[i], synth)
        /\ normalized_type(src[i]) \in ignore_types(synth)}
UnknownIdx(src, synth) ==
    {i \in 1..Len(src) :
        /\ normalized_type(src[i]) \notin DOMAIN file_types(src[i], synth)
        /\ normalized_type(src[i]) \notin ignore_types(synth)}

UnknownTypeWarning(f) ==
    Warning(f.name \o " has unknown file type '" \o f.file_type \o "'")

\* C1: under either flow, configure_main collects as many non-empty directives
\* as there are files whose normalized type is in the flow's dispatch table, and
\* the k-th directive is the one of the k-th such file in declaration order.
C1_DirectivesMatchFiles ==
    VivadoConfigured =>
        LET src == SrcFiles
            rec == RecognizedIdx(src, Synth)
            dirs == PerFileDirectives
        IN /\ Len(dirs) = Cardinality(rec)
           /\ \A k \in 1..Len(dirs) :
                 /\ dirs[k] # ""
                 /\ EndsWith(dirs[k], " " \o src[Kth(rec, k)].name)

C1_Witness ==
    /\ VivadoConfigured
    /\ Len(files) = 2
    /\ files[1].name # files[2].name
    /\ Len(PerFileDirectives) = 2
    /\ Synth = "yosys"

\* C2: a file of unknown type does not abort Configure: it gets the empty
\* directive and exactly one warning naming it and its type, nothing for it is in
\* the rendered list, and the scripts are written; an ignored file gets the
\* empty directive and no warning.
C2_UnknownTypeIsSoft ==
    last_op = "configure" =>
        LET src == SrcFiles
            unknown == UnknownIdx(src, Synth)
            ignored == IgnoredIdx(src, Synth)
            dirs == RenderedDirectives
        IN /\ raised = ""
           /\ SelectSeq(effects, IsWarning)
                = [k \in 1..Cardinality(unknown) |->
                      UnknownTypeWarning(src[Kth(unknown, k)])]
           /\ \A i \in unknown \cup ignored :
                 /\ src_file_filter(src[i], Synth) = ""
                 /\ \A k \in 1..Len(dirs) : ~EndsWith(dirs[k], " " \o src[i].name)
           /\ \A f \in {name \o ".tcl", "Makefile", name \o "_run.tcl"} :
                 /\ f \in DOMAIN fs
                 /\ \E k \in 1..Len(effects) : effects[k] = Write(f)

C2_Witness ==
    /\ last_op = "configure"
    /\ files = <<File("x.foo", "unknown_type", ""), File("k.txt", "user", "")>>
    /\ SelectSeq(effects, IsWarning)
         = <<Warning("x.foo has unknown file type 'unknown_type'")>>
    /\ RenderedDirectives = <<>>
    /\ "core.tcl" \in DOMAIN fs

\* the source types the 'vivado' flow compiles and the other flows do not
HdlSourceTypes == {"verilogSource", "systemVerilogSource", "vhdlSource"}

ReadEdif == "read_edif " \o toplevel \o ".edif"

\* C5: with synth switched from 'vivado' to 'yosys', the hardware-description
\* source types are ignored (empty directive, no warning) and the directive list
\* holds exactly one 'read_edif <toplevel>.edif'; under 'vivado' it holds none.
C5_FlowSubstitution ==
    last_op = "configure" =>
        LET src == SrcFiles
            dirs == RenderedDirectives
        IN /\ Synth = "yosys" =>
                 /\ \A i \in 1..Len(src) :
                       normalized_type(src[i]) \in HdlSourceTypes =>
                           /\ src_file_filter(src[i], Synth) = ""
                           /\ \A k \in 1..Len(effects) :
                                 effects[k] # UnknownTypeWarning(src[i])
                 /\ Cardinality({k \in 1..Len(dirs) : dirs[k] = ReadEdif}) = 1
           /\ Synth = "vivado" => \A k \in 1..Len(dirs) : dirs[k] # ReadEdif

\* the command of a type other than vhdlSource, fixed by the normalized type
FixedCommand ==
    [verilogSource |-> "read_verilog", systemVerilogSource |-> "read_verilog -sv",
     xci |-> "read_ip", xdc |-> "read_xdc", tclSource |-> "source"]

ExpectedDirective(f) ==
    IF SplitDashHead(f.file_type) = "vhdlSource"
    THEN "read_vhdl"
         \o (IF f.file_type = "vhdlSource-2008" THEN " -vhdl2008" ELSE "")
         \o (IF f.logical_name # "" THEN " -library " \o f.logical_name ELSE "")
         \o " " \o f.name
    ELSE FixedCommand[SplitDashHead(f.file_type)] \o " " \o f.name

VivadoFlowIdx(src) ==
    {i \in 1..Len(src) :
        SplitDashHead(src[i].file_type) \in {"vhdlSource"} \cup DOMAIN FixedCommand}

\* C9: under the 'vivado' flow a vhdlSource file's directive is 'read_vhdl', then
\* ' -vhdl2008' iff its type is exactly 'vhdlSource-2008', then
\* ' -library <logical_name>' iff it has a logical name, then the file name; any
\* other type of the table gives '<command> <name>', the command fixed by the
\* normalized type alone.
C9_VivadoFlowDirectives ==
    (VivadoConfigured /\ Synth = "vivado") =>
        LET src == SrcFiles
            idx == VivadoFlowIdx(src)
        IN RenderedDirectives
             = [k \in 1..Cardinality(idx) |-> ExpectedDirective(src[Kth(idx, k)])]

C9_Witness ==
    /\ VivadoConfigured
    /\ Synth = "vivado"
    /\ files = <<File("d.vhd", "vhdlSource-93", "mylib"),
                 File("b.vhd", "vhdlSource-2008", "mylib")>>
    /\ RenderedDirectives = <<"read_vhdl -library mylib d.vhd",
                              "read_vhdl -vhdl2008 -library mylib b.vhd">>

ProgramScript == name \o "_pgm.tcl"

\* C10: a programming run writes <name>_pgm.tcl and then invokes the tool once,
\* with ['-mode', 'batch', '-source', '<name>_pgm.tcl']; without hw_device it
\* fails with nothing written and no tool invoked, while Configure succeeds.
C10_ProgramOrder ==
    /\ last_op = "run" =>
          IF OptHas(tool_options, "hw_device")
          THEN /\ raised = ""
               /\ ProgramScript \in DOMAIN fs
               /\ effects = <<Write(ProgramScript),
                              RunTool("vivado", <<"-mode", "batch", "-source",
                                                  ProgramScript>>)>>
          ELSE /\ raised # ""
               /\ effects = <<>>
               /\ ProgramScript \notin DOMAIN fs
    /\ last_op = "configure" => raised = ""

C10_Witness ==
    /\ last_op = "run"
    /\ n_conf = 0
    /\ OptHas(tool_options, "hw_device")
    /\ Len(effects) = 2
    /\ IsWrite(effects[1])
    /\ IsRunTool(effects[2])

(***************************************************************************)
(* VUnit                                                                   *)
(***************************************************************************)
\* configure_main's first loop: self.files with empty logical names defaulted
default_libraries(fls) ==
    [i \in 1..Len(fls) |->
        IF fls[i].logical_name = ""
        THEN [fls[i] EXCEPT !.logical_name = "default_lib"]
        ELSE fls[i]]

\* configure_main's first loop: the libraries list
RECURSIVE libraries_from(_, _)
libraries_from(libs, fls) ==
    IF fls = <<>> THEN libs
    ELSE LET l == IF Head(fls).logical_name = "" THEN "default_lib"
                  ELSE Head(fls).logical_name
         IN libraries_from(IF \E i \in 1..Len(libs) : libs[i] = l THEN libs
                           ELSE Append(libs, l),
                           Tail(fls))

\* mutant: the list starts empty and is filled from the files alone
libraries_from_empty(fls) == libraries_from(<<>>, fls)

libraries(fls) == libraries_from(<<"default_lib">>, fls)

\* the first file of self.files whose name contains the value, 0 when none does
first_match(fls, value) ==
    LET hits == {i \in 1..Len(fls) : IsSubstring(value, fls[i].name)}
    IN IF hits = {} THEN 0 ELSE CHOOSE i \in hits : \A j \in hits : i <= j

\* mutant: a fragment that is not found is skipped without an error
check_for_optional_files_skip(st, fls, opt) ==
    LET i == first_match(fls, OptAt(st.tool_options, opt))
        abspath == PathJoin(WorkRoot, fls[i].name)
    IN IF i = 0
       THEN st
       ELSE [tool_options |-> OptSet(st.tool_options, opt, PathName(abspath)),
             loader |-> Append(st.loader, PathParent(abspath)),
             raised |-> ""]

\* check_for_optional_files(self, opt) on the state st = [tool_options, loader, raised]
check_for_optional_files(st, fls, opt) ==
    LET i == first_match(fls, OptAt(st.tool_options, opt))
        abspath == PathJoin(WorkRoot, fls[i].name)
    IN IF i = 0
       THEN [st EXCEPT !.raised = opt \o " file not found in target filesets"]
       ELSE [tool_options |-> OptSet(st.tool_options, opt, PathName(abspath)),
             loader |-> Append(st.loader, PathParent(abspath)),
             raised |-> ""]

FragmentOptions == {"pre_flow_fragment", "post_flow_fragment"}

\* configure_main's loop over self.tool_options.copy().items()
RECURSIVE check_fragments(_, _, _)
check_fragments(items, st, fls) ==
    IF items = <<>> \/ st.raised # "" THEN st
    ELSE check_fragments(Tail(items),
                         IF Head(items)[1] \in FragmentOptions
                         THEN check_for_optional_files(st, fls, Head(items)[1])
                         ELSE st,
                         fls)

\* the fragments run.py includes: the declared fragment options' values
vunit_includes(opts) ==
    (IF OptHas(opts, "pre_flow_fragment") THEN <<OptAt(opts, "pre_flow_fragment")>> ELSE <<>>)
    \o (IF OptHas(opts, "post_flow_fragment") THEN <<OptAt(opts, "post_flow_fragment")>> ELSE <<>>)

\* Vunit.configure_main
VunitConfigure ==
    /\ n_conf < MaxConfigures
    /\ LET fls == default_libraries(files)
           st == check_fragments(tool_options,
                                 [tool_options |-> tool_options, loader |-> loader,
                                  raised |-> ""],
                                 fls)
       IN /\ files' = fls
          /\ tool_options' = st.tool_options
          /\ loader' = st.loader
          /\ raised' = st.raised
          /\ IF st.raised = ""
             THEN /\ fs' = FsPut(fs, "run.py",
                                 render_template("run.py.j2",
                                     [src_files |-> get_fileset_files(fls, FALSE),
                                      libraries |-> libraries(files),
                                      tool_options |-> OptDict(st.tool_options)],
                                     st.loader, fls, vunit_includes(st.tool_options)))
                  /\ effects' = <<Write("run.py")>>
             ELSE /\ fs' = fs
                  /\ effects' = <<>>
    /\ last_op' = "configure"
    /\ n_conf' = n_conf + 1
    /\ UNCHANGED <<manifest, include_dirs, name, toplevel, n_run>>

\* Vunit.run_main
VunitRun ==
    /\ n_run < MaxRuns
    /\ effects' = <<RunTool("python", <<"run.py">> \o OptGet(tool_options, "vuargs", <<>>))>>
    /\ raised' = ""
    /\ last_op' = "run"
    /\ n_run' = n_run + 1
    /\ UNCHANGED <<manifest, files, include_dirs, tool_options, name, toplevel, loader, fs, n_conf>>

VunitFileChoices ==
    {File("tb.vhd", "vhdlSource", ""),
     File("my_pre.py", "user", ""),
     File("sub/pre.py", "user", "libA"),
     File("hooks/post.py", "user", ""),
     File("rtl/top.vhd", "vhdlSource-2008", "libB"),
     File("pkg.vhd", "vhdlSource", "default_lib")}

VunitPre == {<<"pre_flow_fragment", v>> : v \in {"pre.py", "sub/pre.py", "missing.py"}}
VunitPost == {<<"post_flow_fragment", v>> : v \in {"post.py", "gone.py"}}

VunitOptionChoices ==
    {<<>>, <<<<"vuargs", <<"--list">>>>>>}
    \cup {<<a>> : a \in VunitPre \cup VunitPost}
    \cup {<<a, b>> : a \in VunitPre, b \in VunitPost}
    \cup {<<b, a>> : a \in VunitPre, b \in VunitPost}
    \cup {<<<<"vuargs", <<"--list">>>>, a>> : a \in VunitPre}

VunitInit ==
    /\ files \in FileLists(VunitFileChoices)
    /\ manifest = files
    /\ include_dirs = <<>>
    /\ tool_options \in VunitOptionChoices
    /\ name = "core"
    /\ toplevel = "tb"
    /\ loader = <<"templates">>
    /\ fs = <<>>
    /\ effects = <<>>
    /\ raised = ""
    /\ last_op = "none"
    /\ n_conf = 0
    /\ n_run = 0

VunitNext == VunitConfigure \/ VunitRun

SpecVunit == VunitInit /\ [][VunitNext]_vars

(***************************************************************************)
(* VUnit: properties                                                       *)
(***************************************************************************)
\* the declared fragment options whose value no file name of fls contains
UnmatchedOptions(opts, fls) ==
    {k \in FragmentOptions :
        /\ OptHas(opts, k)
        /\ \A i \in 1..Len(fls) : ~IsSubstring(OptAt(opts, k), fls[i].name)}

\* the first of them in the options' order
FirstUnmatched(opts, fls) ==
    opts[CHOOSE i \in 1..Len(opts) :
            /\ opts[i][1] \in UnmatchedOptions(opts, fls)
            /\ \A j \in 1..(i - 1) : opts[j][1] \notin UnmatchedOptions(opts, fls)][1]

\* C3: a Configure with a declared fragment option that no manifest file matches
\* raises the configuration error naming the missing option (the first one in
\* the options' order when both are missing) and writes nothing.
C3_MissingFragmentIsFatal ==
    [][(n_conf' = n_conf + 1 /\ UnmatchedOptions(tool_options, files) # {}) =>
          /\ raised' = FirstUnmatched(tool_options, files)
                       \o " file not found in target filesets"
          /\ fs' = fs
          /\ "run.py" \notin DOMAIN fs'
          /\ \A k \in 1..Len(effects') : ~IsWrite(effects'[k])]_vars

C3_Witness ==
    /\ last_op = "configure"
    /\ raised = "post_flow_fragment file not found in target filesets"
    /\ OptHas(tool_options, "pre_flow_fragment")
    /\ OptAt(tool_options, "post_flow_fragment") = "gone.py"
    /\ Len(files) = 2
    /\ "run.py" \notin DOMAIN fs

\* C4: after Configure every file that had no logical name is in 'default_lib',
\* the emitted libraries list starts with 'default_lib' whatever the files'
\* order and libraries, and every file's logical name is in the list.
C4_LibraryDefaulting ==
    n_conf >= 1 =>
        /\ Len(files) = Len(manifest)
        /\ \A i \in 1..Len(files) :
              IF manifest[i].logical_name = ""
              THEN files[i].logical_name = "default_lib"
              ELSE files[i].logical_name = manifest[i].logical_name
        /\ "run.py" \in DOMAIN fs =>
              LET libs == fs["run.py"].vars.libraries
                  src == fs["run.py"].vars.src_files
              IN /\ Len(libs) >= 1
                 /\ libs[1] = "default_lib"
                 /\ \A i \in 1..Len(files) :
                       \E k \in 1..Len(libs) : libs[k] = files[i].logical_name
                 /\ \A i \in 1..Len(src) :
                       \E k \in 1..Len(libs) : libs[k] = src[i].logical_name

C4_Witness ==
    /\ "run.py" \in DOMAIN fs
    /\ manifest = <<File("sub/pre.py", "user", "libA"), File("tb.vhd", "vhdlSource", "")>>
    /\ files[2].logical_name = "default_lib"
    /\ fs["run.py"].vars.libraries = <<"default_lib", "libA">>

\* C7: a second Configure on the state the first one left, with the same
\* manifest and options, leaves the generated scripts as the first wrote them.
C7_ConfigureIdempotent ==
    [][(n_conf >= 1 /\ n_conf' = n_conf + 1) => fs' = fs]_vars

(***************************************************************************)
(* ALINT-PRO                                                               *)
(***************************************************************************)
\* list.remove(x): the list without the first element equal to x
ListRemove(l, x) ==
    LET i == CHOOSE k \in 1..Len(l) : l[k] = x /\ \A j \in 1..(k - 1) : l[j] # x
    IN SubSeq(l, 1, i - 1) \o SubSeq(l, i + 1, Len(l))

\* the File objects of `ids`, in that order
Deref(heap, ids) == [i \in 1..Len(ids) |-> heap[ids[i]]]

\* waiver_files = [f for f in src_files if f.file_type == 'waiver'], as object ids
waiver_ids(heap) == SelectSeq([i \in 1..Len(heap) |-> i],
                              LAMBDA i : heap[i].file_type = "waiver")

\* mutant: the waiver file stays in src_files
reclassify_keep(st, f) ==
    LET abspath == PathJoin(WorkRoot, st.heap[f].name)
    IN [heap |-> [st.heap EXCEPT ![f].name = PathName(abspath)],
        loader |-> Append(st.loader, PathParent(abspath)),
        src_files |-> st.src_files]

\* one pass of configure_main's loop body, for the File object f of st.heap
reclassify(st, f) ==
    LET abspath == PathJoin(WorkRoot, st.heap[f].name)
    IN [heap |-> [st.heap EXCEPT ![f].name = PathName(abspath)],
        loader |-> Append(st.loader, PathParent(abspath)),
        src_files |-> ListRemove(st.src_files, f)]

\* configure_main's loop over waiver_files
RECURSIVE reclassify_all(_, _)
reclassify_all(ws, st) ==
    IF ws = <<>> THEN st
    ELSE reclassify_all(Tail(ws), reclassify(st, Head(ws)))

\* the state after configure_main's loop: File objects, lookup roots, src_files
alintpro_reclassified ==
    LET heap == get_fileset_files(files, TRUE)
    IN reclassify_all(waiver_ids(heap),
                      [heap |-> heap,
                       loader |-> Append(loader, PathJoin(PathParent(WorkRoot), "src")),
                       src_files |-> [i \in 1..Len(heap) |-> i]])

alintpro_template_vars ==
    LET st == alintpro_reclassified
    IN [name |-> Replace(name, ".", "_"),
        toplevel |-> toplevel,
        tool_options |-> OptDict(tool_options),
        src_files |-> Deref(st.heap, st.src_files),
        waiver_files |-> Deref(st.heap, waiver_ids(st.heap))]

\* Alintpro.configure_main
AlintproConfigure ==
    /\ n_conf < MaxConfigures
    /\ loader' = alintpro_reclassified.loader
    /\ fs' = FsPut(fs, "alintpro.do",
                   render_template("alintpro.do.j2", alintpro_template_vars,
                                   alintpro_reclassified.loader, files,
                                   [i \in 1..Len(alintpro_template_vars.waiver_files) |->
                                       alintpro_template_vars.waiver_files[i].name]))
    /\ effects' = <<Write("alintpro.do")>>
    /\ raised' = ""
    /\ last_op' = "configure"
    /\ n_conf' = n_conf + 1
    /\ UNCHANGED <<manifest, files, include_dirs, tool_options, name, toplevel, n_run>>

\* the truth of self.tool_options.get('gui', []): the flag is a Bool when set,
\* and the default [] is false
gui_selected == OptHas(tool_options, "gui") /\ OptAt(tool_options, "gui")

alintpro_cmd ==
    "C:/Aldec/ALINT-PRO-2018.07-SU1/bin/"
    \o (IF gui_selected THEN "alint.exe" ELSE "alintcon.exe")

\* mutant: the batch argument is added in both modes
alintpro_args_always_batch == <<"-batch", "-do", "alintpro.do">>

alintpro_args ==
    (IF gui_selected THEN <<>> ELSE <<"-batch">>) \o <<"-do", "alintpro.do">>

\* Alintpro.run_main
AlintproRun ==
    /\ n_run < MaxRuns
    /\ effects' = <<RunTool(alintpro_cmd, alintpro_args)>>
    /\ raised' = ""
    /\ last_op' = "run"
    /\ n_run' = n_run + 1
    /\ UNCHANGED <<manifest, files, include_dirs, tool_options, name, toplevel, loader, fs, n_conf>>

AlintproFileChoices ==
    {File("a.v", "verilogSource", ""),
     File("rtl\\b.vhd", "vhdlSource-2008", "libA"),
     File("w/one.tcl", "waiver", ""),
     File("lint\\two.tcl", "waiver", ""),
     File("three.tcl", "waiver", ""),
     File("old/one.tcl", "waiver-draft", "")}

AlintproOptionChoices ==
    {<<>>, <<<<"gui", FALSE>>>>, <<<<"gui", TRUE>>>>,
     <<<<"linting_ruleset", "rules.do">>, <<"gui", TRUE>>>>}

AlintproInit ==
    /\ files \in FileLists(AlintproFileChoices)
    /\ manifest = files
    /\ include_dirs = <<>>
    /\ tool_options \in AlintproOptionChoices
    /\ name \in {"core", "my.core"}
    /\ toplevel = "top"
    /\ loader = <<"templates">>
    /\ fs = <<>>
    /\ effects = <<>>
    /\ raised = ""
    /\ last_op = "none"
    /\ n_conf = 0
    /\ n_run = 0

AlintproNext == AlintproConfigure \/ AlintproRun

SpecAlintpro == AlintproInit /\ [][AlintproNext]_vars

(***************************************************************************)
(* ALINT-PRO: properties                                                   *)
(***************************************************************************)
IsWaiver(f) == f.file_type = "waiver"
NotWaiver(f) == f.file_type # "waiver"

\* b is the last component of the path p
IsBareNameOf(b, p) ==
    /\ \A i \in 1..Len(b) : Char(b, i) # "/"
    /\ p = b \/ EndsWith(p, "/" \o b)

\* d is the directory that holds the file `n` of the work root
IsContainingDir(d, n) ==
    \E b \in {SubSeq(n, i, Len(n)) : i \in 1..Len(n)} :
        /\ IsBareNameOf(b, n)
        /\ d \o "/" \o b = WorkRoot \o "/" \o n

\* C6: run_main invokes the tool once: the batch executable with
\* ['-batch', '-do', 'alintpro.do'] when the GUI flag is false or unset, the GUI
\* executable with ['-do', 'alintpro.do'] when it is true.
C6_ModeSelection ==
    last_op = "run" =>
        /\ Len(effects) = 1
        /\ IsRunTool(effects[1])
        /\ IF OptHas(tool_options, "gui") /\ OptAt(tool_options, "gui") = TRUE
           THEN /\ effects[1].what = "C:/Aldec/ALINT-PRO-2018.07-SU1/bin/alint.exe"
                /\ effects[1].args = <<"-do", "alintpro.do">>
           ELSE /\ effects[1].what = "C:/Aldec/ALINT-PRO-2018.07-SU1/bin/alintcon.exe"
                /\ effects[1].args = <<"-batch", "-do", "alintpro.do">>

C6_Witness ==
    /\ last_op = "run"
    /\ OptHas(tool_options, "gui")
    /\ OptAt(tool_options, "gui") = TRUE
    /\ effects[1].args = <<"-do", "alintpro.do">>

\* C8: after configure_main's loop no waiver file is left in src_files, the other
\* files keep their order, the waiver list holds the waiver files in declaration
\* order under their bare names, and each Configure has appended one lookup
\* root per waiver file, its containing directory, behind the roots before it.
C8_WaiverReclassification ==
    "alintpro.do" \in DOMAIN fs =>
        LET v == fs["alintpro.do"].vars
            src == get_fileset_files(manifest, TRUE)
            w == SelectSeq(src, IsWaiver)
        IN /\ \A k \in 1..Len(v.src_files) : v.src_files[k].file_type # "waiver"
           /\ v.src_files = SelectSeq(src, NotWaiver)
           /\ Len(v.waiver_files) = Len(w)
           /\ \A k \in 1..Len(w) :
                 /\ v.waiver_files[k].file_type = "waiver"
                 /\ v.waiver_files[k].logical_name = w[k].logical_name
                 /\ IsBareNameOf(v.waiver_files[k].name, w[k].name)
           /\ Len(loader) = 1 + n_conf * (1 + Len(w))
           /\ \A r \in 0..(n_conf - 1) : \A k \in 1..Len(w) :
                 IsContainingDir(loader[1 + r * (1 + Len(w)) + 1 + k], w[k].name)

C8_Witness ==
    /\ n_conf = 1
    /\ manifest = <<File("lint\\two.tcl", "waiver", ""), File("a.v", "verilogSource", "")>>
    /\ loader = <<"templates", "/b/src", "/b/work/lint">>
    /\ fs["alintpro.do"].vars.waiver_files = <<File("two.tcl", "waiver", "")>>
    /\ fs["alintpro.do"].vars.src_files = <<File("a.v", "verilogSource", "")>>

=============================================================================
